---- MODULE Spec2Model ----
(***************************************************************************)
(* A model of the wordleBot engine (src/src/wordle_bot.py): the feedback   *)
(* simulator get_feedback, the candidate filter filter_word_list, the      *)
(* entropy scorer calculate_entropy and the guess selector                 *)
(* find_best_guess; and of the game loop play_game, in its two versions    *)
(* (src/src/simulation.py and src/src/start_word_simulation.py).           *)
(*                                                                         *)
(* A word is a sequence of WordLen one-character strings; Python's index i *)
(* (0-based) is position i + 1 here.  A feedback string is the sequence of *)
(* its characters.  A float score is held exactly, as the real number it   *)
(* stands for (see "A float value" below); the rounding of IEEE doubles is *)
(* outside the model.  Two scores that are the same real number are the    *)
(* same score here; the doubles the program computes for them can differ   *)
(* in the last place, depending on the order the buckets are summed in.    *)
(***************************************************************************)
EXTENDS Integers, Sequences, FiniteSets

VARIABLES fn, args, ret, pc, simulation, start_word

\* the locals of the two game loops (simulation.py, start_word_simulation.py)
games == <<simulation, start_word>>

vars == <<fn, args, ret, pc, simulation, start_word>>

-----------------------------------------------------------------------------
(* Bounds of the model and constants of the program.                       *)

\* letters of the exhaustive word set the feedback simulator is run on
NumLetters == 2
\* length of the answer vocabulary the possibility lists are cut from
VocabSize == 5
\* length of the word list the guess pools are cut from
PoolSize == 3
\* how far past NARROW_LIMIT the long possibility lists go
MaxOver == 1

\* wordle_bot.py:26,30,36: the feedback has 5 slots, both passes run range(5)
WordLen == 5
\* wordle_bot.py:87: len(possible_words) <= 50 narrows the pool
NARROW_LIMIT == 50
\* wordle_bot.py:108: progress is printed every 500 candidates
PROGRESS_EVERY == 500

LetterSeq == <<"a", "b", "c", "d", "e", "f", "i", "r", "s">>
Alphabet == {LetterSeq[i] : i \in 1..Len(LetterSeq)}
Letters == {LetterSeq[i] : i \in 1..NumLetters}

\* wordle_bot.py:8
STARTING_GUESS == <<"r", "a", "i", "s", "e">>

\* concrete words: the spec's scenarios, words with repeated letters
WordBank ==
  << STARTING_GUESS,
     <<"a", "b", "c", "d", "e">>,
     <<"a", "d", "c", "b", "e">>,
     <<"a", "b", "c", "d", "f">>,
     <<"f", "b", "c", "d", "a">>,
     <<"a", "a", "b", "b", "b">>,
     <<"a", "b", "a", "b", "a">>,
     <<"b", "a", "b", "a", "b">> >>

Range(s) == {s[i] : i \in 1..Len(s)}

\* the sequence s itself, its members computed once
Computed(s) == s \o <<>>

BankWords == Range(WordBank)
\* every word over Letters, and the concrete words
Words == [1..WordLen -> Letters] \cup BankWords

\* wordle_bot.py:13
FEEDBACK_CODES == {"G", "Y", "B"}
Patterns == [1..WordLen -> FEEDBACK_CODES]
AllGreen == [i \in 1..WordLen |-> "G"]

\* Python's None, where a word is expected
None == <<>>

-----------------------------------------------------------------------------
(* get_feedback, wordle_bot.py:25-46                                       *)

\* collections.Counter(answer): a letter that is not in answer counts 0
Counter(answer) ==
  [c \in Alphabet |-> Cardinality({i \in 1..WordLen : answer[i] = c})]

\* line 37: the test that skips a slot in the second pass
SkipSlot(guess, feedback, i) == guess[i] = "G"

\* line 41: the letter still has a remaining count
MutStillLeft(answer_counts, letter) == answer_counts[letter] >= 0
StillLeft(answer_counts, letter) == answer_counts[letter] > 0

\* line 33: a green takes one off the letter's count
SpendGreen(answer_counts, letter) == [answer_counts EXCEPT ![letter] = @ - 1]

\* line 43: a yellow takes one off the letter's count
MutSpendYellow(answer_counts, letter) == answer_counts
SpendYellow(answer_counts, letter) == [answer_counts EXCEPT ![letter] = @ - 1]

\* lines 30-33, from slot i on
RECURSIVE FirstPass(_, _, _, _, _)
FirstPass(guess, answer, i, feedback, answer_counts) ==
  IF i > WordLen
    THEN [feedback |-> feedback, answer_counts |-> answer_counts]
    ELSE IF guess[i] = answer[i]
      THEN FirstPass(guess, answer, i + 1,
                     [feedback EXCEPT ![i] = "G"],
                     SpendGreen(answer_counts, guess[i]))
      ELSE FirstPass(guess, answer, i + 1, feedback, answer_counts)

\* lines 36-44, from slot i on
RECURSIVE SecondPass(_, _, _, _)
SecondPass(guess, i, feedback, answer_counts) ==
  IF i > WordLen
    THEN feedback
    ELSE IF SkipSlot(guess, feedback, i)
      THEN SecondPass(guess, i + 1, feedback, answer_counts)
      ELSE IF StillLeft(answer_counts, guess[i])
        THEN SecondPass(guess, i + 1,
                        [feedback EXCEPT ![i] = "Y"],
                        SpendYellow(answer_counts, guess[i]))
        ELSE SecondPass(guess, i + 1, feedback, answer_counts)

get_feedback(guess, answer) ==
  LET p1 == FirstPass(guess, answer, 1,
                      [i \in 1..WordLen |-> "B"], Counter(answer))
  IN  SecondPass(guess, 1, p1.feedback, p1.answer_counts)

-----------------------------------------------------------------------------
(* filter_word_list, wordle_bot.py:48-49                                   *)

\* line 49: the condition of the comprehension
MutKeep(guess, word, feedback) == get_feedback(word, guess) = feedback
Keep(guess, word, feedback) == get_feedback(guess, word) = feedback

MutFilterFront(words, guess, feedback) ==
  LET kept == SelectSeq(words, LAMBDA word : Keep(guess, word, feedback))
  IN  [k \in 1..Len(kept) |-> kept[Len(kept) + 1 - k]]
filter_word_list(words, guess, feedback) ==
  SelectSeq(words, LAMBDA word : Keep(guess, word, feedback))

-----------------------------------------------------------------------------
(* Exact arithmetic for the scores.                                        *)
(*                                                                         *)
(* A natural number is the sequence of its digits in base Base, lowest     *)
(* digit first, without leading zeros (0 is the empty sequence).  The      *)
(* recursions split their range in halves, to stay shallow.                *)

Base == 10 * 100

RECURSIVE BigOf(_)
BigOf(k) == IF k = 0 THEN <<>> ELSE <<k % Base>> \o BigOf(k \div Base)

BigOne == BigOf(1)

BigTrim(x) ==
  LET nz == {i \in 1..Len(x) : x[i] # 0}
  IN  IF nz = {} THEN <<>>
      ELSE SubSeq(x, 1, CHOOSE i \in nz : \A j \in nz : j <= i)

\* t[lo] + ... + t[hi]
RECURSIVE SumSeq(_, _, _)
SumSeq(t, lo, hi) ==
  IF lo > hi THEN 0
  ELSE IF lo = hi THEN t[lo]
  ELSE LET mid == (lo + hi) \div 2
       IN  SumSeq(t, lo, mid) + SumSeq(t, mid + 1, hi)

\* one step of carrying: every slot keeps its digit and takes its lower
\* neighbour's carry
CarryStep(c) ==
  Computed([k \in 1..Len(c) |->
              (c[k] % Base) + (IF k = 1 THEN 0 ELSE c[k - 1] \div Base)])

\* the digits of a number whose slots are all below 2 * Base - 1: slot k takes
\* a carry when a lower slot overflows and every slot between is Base - 1
CarryAll(c) ==
  Computed([k \in 1..Len(c) |->
     LET into == \E j \in 1..(k - 1) :
                   /\ c[j] >= Base
                   /\ \A i \in (j + 1)..(k - 1) : c[i] = Base - 1
     IN  (c[k] + (IF into THEN 1 ELSE 0)) % Base])

BigMul(x, y) ==
  IF x = <<>> \/ y = <<>>
    THEN <<>>
    ELSE LET n == Len(x) + Len(y)
             slots == Computed([k \in 1..n |->
                         LET lo == IF k - Len(y) + 1 > 1 THEN k - Len(y) + 1 ELSE 1
                             hi == IF k < Len(x) THEN k ELSE Len(x)
                             t == [i \in 1..Len(x) |->
                                     IF i >= lo /\ i <= hi
                                       THEN x[i] * y[k + 1 - i] ELSE 0]
                         IN  SumSeq(t, lo, hi)])
         IN  BigTrim(CarryAll(CarryStep(CarryStep(slots))))

RECURSIVE BigPow(_, _)
BigPow(x, k) ==
  IF k = 0 THEN BigOne
  ELSE IF k = 1 THEN x
  ELSE LET h == BigPow(x, k \div 2)
       IN  IF k % 2 = 0 THEN BigMul(h, h) ELSE BigMul(BigMul(h, h), x)

BigLess(x, y) ==
  \/ Len(x) < Len(y)
  \/ /\ Len(x) = Len(y)
     /\ \E i \in 1..Len(x) :
          /\ x[i] < y[i]
          /\ \A j \in (i + 1)..Len(x) : x[j] = y[j]

(* A float value: the record [n, num, den] stands for the real number      *)
(* log2(num / den) / n, with n >= 1 and num, den >= 1.                     *)

\* the float 0.0
Zero == [n |-> 1, num |-> BigOne, den |-> BigOne]
\* the float -1.0
MinusOne == [n |-> 1, num |-> BigOne, den |-> BigOf(2)]
\* math.log2(B), B a positive integer
Log2Of(B) == [n |-> 1, num |-> BigOf(B), den |-> BigOne]

\* x > y on floats: log2(qx) / nx > log2(qy) / ny
Greater(x, y) ==
  IF x.n = y.n /\ x.num = y.num
    THEN BigLess(x.den, y.den)
    ELSE IF x.n = y.n
      THEN BigLess(BigMul(y.num, x.den), BigMul(x.num, y.den))
      ELSE BigLess(BigMul(BigPow(y.num, x.n), BigPow(x.den, y.n)),
                   BigMul(BigPow(x.num, y.n), BigPow(y.den, x.n)))

\* x == y on floats
SameFloat(x, y) == ~Greater(x, y) /\ ~Greater(y, x)

\* x + y on floats
Plus(x, y) ==
  IF x.n = y.n
    THEN [n |-> x.n, num |-> BigMul(x.num, y.num), den |-> BigMul(x.den, y.den)]
    ELSE [n |-> x.n * y.n,
          num |-> BigMul(BigPow(x.num, y.n), BigPow(y.num, x.n)),
          den |-> BigMul(BigPow(x.den, y.n), BigPow(y.den, x.n))]

-----------------------------------------------------------------------------
(* calculate_entropy, wordle_bot.py:51-75                                  *)

\* lines 53-56: the buckets of pattern_to_words, in the order in which the
\* loop meets their patterns, each with its words in the list's order
GroupByPattern(possible_words, guess) ==
  LET n == Len(possible_words)
      pattern == Computed([k \in 1..n |->
                             get_feedback(guess, possible_words[k])])
      first == SelectSeq([k \in 1..n |-> k],
                         LAMBDA k : \A j \in 1..(k - 1) : pattern[j] # pattern[k])
  IN  [b \in 1..Len(first) |->
         [pattern |-> pattern[first[b]],
          words |-> LET at == SelectSeq([k \in 1..n |-> k],
                                  LAMBDA k : pattern[k] = pattern[first[b]])
                    IN  [m \in 1..Len(at) |-> possible_words[at[m]]]]]

\* lines 68-72: probability * log2(1.0 / probability), probability being
\* bucket_size / total_words
MutContribution(bucket_size, total_words) ==
  [n |-> total_words,
   num |-> BigPow(BigOf(bucket_size), bucket_size),
   den |-> BigPow(BigOf(total_words), bucket_size)]
Contribution(bucket_size, total_words) ==
  [n |-> total_words,
   num |-> BigPow(BigOf(total_words), bucket_size),
   den |-> BigPow(BigOf(bucket_size), bucket_size)]

\* line 72: entropy += contribution
MutAccumulate(entropy, contribution) == contribution
Accumulate(entropy, contribution) == Plus(entropy, contribution)

\* lines 64-72: what the loop adds to entropy over the buckets lo..hi, in
\* order; a range of several buckets is summed half by half
RECURSIVE SumBuckets(_, _, _, _)
SumBuckets(pattern_to_words, total_words, lo, hi) ==
  IF lo = hi
    THEN Contribution(Len(pattern_to_words[lo].words), total_words)
    ELSE LET mid == (lo + hi) \div 2
         IN  Accumulate(SumBuckets(pattern_to_words, total_words, lo, mid),
                        SumBuckets(pattern_to_words, total_words, mid + 1, hi))

calculate_entropy(possible_words, guess) ==
  LET pattern_to_words == GroupByPattern(possible_words, guess)
      total_words == Len(possible_words)
  IN  IF total_words <= 1
        THEN Zero
        ELSE Accumulate(Zero, SumBuckets(pattern_to_words, total_words,
                                         1, Len(pattern_to_words)))

-----------------------------------------------------------------------------
(* find_best_guess, wordle_bot.py:77-117                                   *)

\* lines 87-93: the pool that is searched
GuessPool(possible_words, full_guess_pool) ==
  IF Len(possible_words) <= NARROW_LIMIT THEN possible_words ELSE full_guess_pool

\* line 103: the candidate replaces the best so far
MutBetter(score, best_score) == ~Greater(best_score, score)
Better(score, best_score) == Greater(score, best_score)

\* lines 81-82: the best before the loop
NoBest == [best_score |-> MinusOne, best_guess |-> None]

\* lines 100-105: one turn of the loop, for the candidate guess
TryCandidate(possible_words, guess, best) ==
  LET score == calculate_entropy(possible_words, guess)
  IN  IF Better(score, best.best_score)
        THEN [best_score |-> score, best_guess |-> guess]
        ELSE best

\* lines 98-105: the best after the loop has run over the candidates lo..hi
\* from NoBest.  A range of several candidates is searched half by half:
\* the loop goes on from the best of the first half, and what it finds in
\* the second half replaces that best when the test of line 103 says so.
RECURSIVE SearchPool(_, _, _, _)
SearchPool(possible_words, guess_pool, lo, hi) ==
  IF lo > hi THEN NoBest
  ELSE IF lo = hi
    THEN TryCandidate(possible_words, guess_pool[lo], NoBest)
    ELSE LET mid == (lo + hi) \div 2
             first == SearchPool(possible_words, guess_pool, lo, mid)
             second == SearchPool(possible_words, guess_pool, mid + 1, hi)
         IN  IF Better(second.best_score, first.best_score)
               THEN second ELSE first

\* lines 79, 90, 111, 115: the lines printed, none when quiet
Printed(possible_words, guess_pool, quiet) ==
  IF quiet THEN <<>>
  ELSE <<"calculating">> \o
       (IF Len(possible_words) <= NARROW_LIMIT THEN <<"optimizing">> ELSE <<>>) \o
       [k \in 1..(Len(guess_pool) \div PROGRESS_EVERY) |-> "progress"] \o
       <<"finished">>

\* the outcome of a call: the pair returned, and the lines printed.  No
\* statement of the function raises, so raised is FALSE in every outcome.
find_best_guess(possible_words, full_guess_pool, quiet) ==
  LET guess_pool == GuessPool(possible_words, full_guess_pool)
      best == SearchPool(possible_words, guess_pool, 1, Len(guess_pool))
  IN  [raised |-> FALSE,
       guess |-> best.best_guess,
       score |-> best.best_score,
       printed |-> Printed(possible_words, guess_pool, quiet)]

-----------------------------------------------------------------------------
(* The inputs of the calls.                                                *)

\* the members of v at the positions in S, in v's order
SubListOf(v, S) ==
  LET idx == SelectSeq([i \in 1..Len(v) |-> i], LAMBDA i : i \in S)
  IN  [k \in 1..Len(idx) |-> v[idx[k]]]
SubLists(v) == {SubListOf(v, S) : S \in SUBSET (1..Len(v))}

\* the answer vocabulary; a possibility list is cut from it by filtering
Vocab == SubSeq(WordBank, 1, VocabSize)

\* the words the guess pools are cut from
GuessBank ==
  << WordBank[1], WordBank[2], WordBank[4], WordBank[8], WordBank[3] >>
PoolWords == SubSeq(GuessBank, 1, PoolSize)

\* long possibility lists: the first n words over a, b, c
LongWord(k) ==
  [i \in 1..WordLen |->
     LetterSeq[((k \div (3 ^ (i - 1))) % 3) + 1]]
LongList(n) == [k \in 1..n |-> LongWord(k)]
LongLists == {LongList(n) : n \in NARROW_LIMIT..(NARROW_LIMIT + MaxOver)}

-----------------------------------------------------------------------------
(* The calls.                                                              *)

\* no game is being played
NoGame == [pc |-> "idle"]
NoGames == simulation = NoGame /\ start_word = NoGame

InitFeedback ==
  /\ fn = "get_feedback"
  /\ \E g \in Words, a \in Words : args = [guess |-> g, answer |-> a]
  /\ ret = None
  /\ pc = "call"
  /\ NoGames

GetFeedback ==
  /\ pc = "call"
  /\ fn = "get_feedback"
  /\ ret' = get_feedback(args.guess, args.answer)
  /\ pc' = "return"
  /\ UNCHANGED <<fn, args, games>>

InitFilter ==
  /\ fn = "filter_word_list"
  /\ \E w \in SubLists(Vocab), g \in BankWords, p \in Patterns :
       args = [words |-> w, guess |-> g, feedback |-> p]
  /\ ret = None
  /\ pc = "call"
  /\ NoGames

FilterWordList ==
  /\ pc = "call"
  /\ fn = "filter_word_list"
  /\ ret' = filter_word_list(args.words, args.guess, args.feedback)
  /\ pc' = "return"
  /\ UNCHANGED <<fn, args, games>>

InitEntropy ==
  /\ fn = "calculate_entropy"
  /\ \E w \in SubLists(Vocab), g \in BankWords :
       args = [possible_words |-> w, guess |-> g]
  /\ ret = None
  /\ pc = "call"
  /\ NoGames

CalculateEntropy ==
  /\ pc = "call"
  /\ fn = "calculate_entropy"
  /\ ret' = calculate_entropy(args.possible_words, args.guess)
  /\ pc' = "return"
  /\ UNCHANGED <<fn, args, games>>

InitBestGuess ==
  /\ fn = "find_best_guess"
  /\ \E w \in SubLists(Vocab) \cup LongLists, f \in SubLists(PoolWords),
        q \in BOOLEAN :
       args = [possible_words |-> w, full_guess_pool |-> f, quiet |-> q]
  /\ ret = None
  /\ pc = "call"
  /\ NoGames

FindBestGuess ==
  /\ pc = "call"
  /\ fn = "find_best_guess"
  /\ ret' = find_best_guess(args.possible_words, args.full_guess_pool,
                            args.quiet)
  /\ pc' = "return"
  /\ UNCHANGED <<fn, args, games>>

Init == InitFeedback \/ InitFilter \/ InitEntropy \/ InitBestGuess

Next == GetFeedback \/ FilterWordList \/ CalculateEntropy \/ FindBestGuess

Spec == Init /\ [][Next]_vars

Returned(f) == pc = "return" /\ fn = f

-----------------------------------------------------------------------------
(* play_game, simulation.py:14-77                                          *)
(*                                                                         *)
(* The locals of a game are a record: pc is "while" at the loop test of    *)
(* line 26, "return39", "return69" or "return77" after the return          *)
(* statement of that line (ret is then the dictionary returned), and       *)
(* "raise" after an exception has left the function.  selector_calls       *)
(* counts the calls of find_best_guess the game has made.                  *)

\* simulation.py:9
MAX_ATTEMPTS == 6

\* lines 15-23: the locals before the loop
SimStart(all_answers) ==
  [pc |-> "while",
   remaining_possible_words |-> all_answers,
   guess_number |-> 1,
   game_history |-> <<>>,
   possibilities_before_guess |-> Len(all_answers),
   best_guess |-> None,
   score |-> None,
   selector_calls |-> 0,
   ret |-> None]

\* line 29: the turn of the fixed opening guess
MutOpeningTurn(guess_number) == guess_number = 0
OpeningTurn(guess_number) == guess_number = 1

\* line 33: a single word is left
MutOneLeft(remaining_possible_words) == Len(remaining_possible_words) = 2
OneLeft(remaining_possible_words) == Len(remaining_possible_words) = 1

\* line 37: not remaining_possible_words
NoneLeft(remaining_possible_words) == remaining_possible_words = <<>>

\* lines 39, 69, 77: the dictionary returned
Outcome(result, secret_word, game_history) ==
  [result |-> result, secret_word |-> secret_word, history |-> game_history]

\* lines 29-43: the guess of the turn and its score; returns is TRUE where
\* line 39 returns in place of a guess
SimChoice(g, all_guesses) ==
  IF OpeningTurn(g.guess_number)
    THEN [returns |-> FALSE, best_guess |-> STARTING_GUESS,
          score |-> MinusOne, called |-> 0]
  ELSE IF OneLeft(g.remaining_possible_words)
    THEN [returns |-> FALSE, best_guess |-> g.remaining_possible_words[1],
          score |-> Zero, called |-> 0]
  ELSE IF NoneLeft(g.remaining_possible_words)
    THEN [returns |-> TRUE, best_guess |-> g.best_guess,
          score |-> g.score, called |-> 0]
  ELSE LET found == find_best_guess(g.remaining_possible_words, all_guesses,
                                    TRUE)
       IN  [returns |-> FALSE, best_guess |-> found.guess,
            score |-> found.score, called |-> 1]

\* line 49
IsWin(feedback_str) == feedback_str = AllGreen

\* lines 56-66: the record of a turn
TurnRecord(guess_number, best_guess, feedback_str, score, possibilities_before_guess, after_filter) ==
  [guess_num |-> guess_number,
   guess |-> best_guess,
   feedback |-> feedback_str,
   entropy_score |-> score,
   possibilities_before_guess |-> possibilities_before_guess,
   possibilities_after_filter |-> Len(after_filter)]

\* line 56: game_history.append(...)
MutLog(game_history, record) == <<record>> \o game_history
Log(game_history, record) == Append(game_history, record)

\* line 72: the possibility list of the next turn
MutNextRemaining(remaining_possible_words, after_filter) ==
  remaining_possible_words \o after_filter
NextRemaining(remaining_possible_words, after_filter) == after_filter

\* line 73
MutNextBefore(remaining_possible_words) == Len(remaining_possible_words) + 1
NextBefore(remaining_possible_words) == Len(remaining_possible_words)

\* lines 56-74: the turn is logged, then the game is won or goes on
SimLogged(g, choice, secret_word, feedback_str, after_filter) ==
  LET history ==
        Log(g.game_history,
            TurnRecord(g.guess_number, choice.best_guess, feedback_str,
                       choice.score, g.possibilities_before_guess,
                       after_filter))
  IN  IF IsWin(feedback_str)
        THEN [g EXCEPT
                !.best_guess = choice.best_guess,
                !.score = choice.score,
                !.selector_calls = @ + choice.called,
                !.game_history = history,
                !.pc = "return69",
                !.ret = Outcome(g.guess_number, secret_word, history)]
        ELSE [g EXCEPT
                !.best_guess = choice.best_guess,
                !.score = choice.score,
                !.selector_calls = @ + choice.called,
                !.game_history = history,
                !.remaining_possible_words =
                   NextRemaining(g.remaining_possible_words, after_filter),
                !.possibilities_before_guess =
                   NextBefore(NextRemaining(g.remaining_possible_words,
                                            after_filter)),
                !.guess_number = @ + 1]

\* lines 46-53: the feedback for the guess, and the words that agree with it
SimFiltered(g, choice, secret_word, feedback_str) ==
  SimLogged(g, choice, secret_word, feedback_str,
            filter_word_list(g.remaining_possible_words, choice.best_guess,
                             feedback_str))

\* lines 37-74: what follows the choice of the guess.  A guess of None
\* makes get_feedback raise TypeError at wordle_bot.py:31 (guess[i] of
\* None), which play_game does not catch.
SimGuessed(g, choice, secret_word) ==
  IF choice.returns
    THEN [g EXCEPT !.pc = "return39",
                   !.ret = Outcome(-1, secret_word, g.game_history)]
  ELSE IF choice.best_guess = None
    THEN [g EXCEPT !.best_guess = choice.best_guess,
                   !.score = choice.score,
                   !.selector_calls = @ + choice.called,
                   !.pc = "raise"]
  ELSE SimFiltered(g, choice, secret_word,
                   get_feedback(choice.best_guess, secret_word))

\* lines 29-74: the body of the loop, run once from the locals g
SimBody(g, secret_word, all_guesses) ==
  SimGuessed(g, SimChoice(g, all_guesses), secret_word)

-----------------------------------------------------------------------------
(* play_game, start_word_simulation.py:18-70                               *)

\* start_word_simulation.py:10
StartWord_MAX_ATTEMPTS == 6

\* lines 19-23: the locals before the loop
StartWordStart(all_answers) ==
  [pc |-> "while",
   remaining_possible_words |-> all_answers,
   guess_number |-> 1,
   game_history |-> <<>>,
   possibilities_before_guess |-> Len(all_answers),
   best_guess |-> None,
   score |-> None,
   selector_calls |-> 0,
   ret |-> None]

\* line 30: the opening guess is the parameter
MutStartWordOpening(starting_guess) == WordBank[2]
StartWordOpening(starting_guess) == starting_guess

\* lines 36, 62, 70: the dictionary returned
StartWordOutcome(result, secret_word, game_history, starting_guess) ==
  [result |-> result, secret_word |-> secret_word, history |-> game_history,
   starting_word |-> starting_guess]

\* lines 29-39: the guess of the turn and its score; returns is TRUE where
\* line 36 returns in place of a guess
StartWordChoice(g, all_guesses, starting_guess) ==
  IF g.guess_number = 1
    THEN [returns |-> FALSE, best_guess |-> StartWordOpening(starting_guess),
          score |-> MinusOne, called |-> 0]
  ELSE IF Len(g.remaining_possible_words) = 1
    THEN [returns |-> FALSE, best_guess |-> g.remaining_possible_words[1],
          score |-> Zero, called |-> 0]
  ELSE IF g.remaining_possible_words = <<>>
    THEN [returns |-> TRUE, best_guess |-> g.best_guess,
          score |-> g.score, called |-> 0]
  ELSE LET found == find_best_guess(g.remaining_possible_words, all_guesses,
                                    TRUE)
       IN  [returns |-> FALSE, best_guess |-> found.guess,
            score |-> found.score, called |-> 1]

\* lines 51-59: the record of a turn
StartWordRecord(guess_number, best_guess, feedback_str, score, possibilities_before_guess, after_filter, starting_guess) ==
  [guess_num |-> guess_number,
   guess |-> best_guess,
   feedback |-> feedback_str,
   entropy_score |-> score,
   possibilities_before_guess |-> possibilities_before_guess,
   possibilities_after_filter |-> Len(after_filter),
   starting_word |-> starting_guess]

\* lines 51-67: the turn is logged, then the game is won or goes on
StartWordLogged(g, choice, secret_word, starting_guess, feedback_str, after_filter) ==
  LET history ==
        Append(g.game_history,
               StartWordRecord(g.guess_number, choice.best_guess,
                               feedback_str, choice.score,
                               g.possibilities_before_guess, after_filter,
                               starting_guess))
  IN  IF feedback_str = AllGreen
        THEN [g EXCEPT
                !.best_guess = choice.best_guess,
                !.score = choice.score,
                !.selector_calls = @ + choice.called,
                !.game_history = history,
                !.pc = "return62",
                !.ret = StartWordOutcome(g.guess_number, secret_word,
                                         history, starting_guess)]
        ELSE [g EXCEPT
                !.best_guess = choice.best_guess,
                !.score = choice.score,
                !.selector_calls = @ + choice.called,
                !.game_history = history,
                !.remaining_possible_words = after_filter,
                !.possibilities_before_guess = Len(after_filter),
                !.guess_number = @ + 1]

\* lines 42-48: the feedback for the guess, and the words that agree with it
StartWordFiltered(g, choice, secret_word, starting_guess, feedback_str) ==
  StartWordLogged(g, choice, secret_word, starting_guess, feedback_str,
                  filter_word_list(g.remaining_possible_words,
                                   choice.best_guess, feedback_str))

\* lines 35-67: what follows the choice of the guess; a guess of None makes
\* get_feedback raise, as in simulation.py
StartWordGuessed(g, choice, secret_word, starting_guess) ==
  IF choice.returns
    THEN [g EXCEPT !.pc = "return36",
                   !.ret = StartWordOutcome(-1, secret_word, g.game_history,
                                            starting_guess)]
  ELSE IF choice.best_guess = None
    THEN [g EXCEPT !.best_guess = choice.best_guess,
                   !.score = choice.score,
                   !.selector_calls = @ + choice.called,
                   !.pc = "raise"]
  ELSE StartWordFiltered(g, choice, secret_word, starting_guess,
                         get_feedback(choice.best_guess, secret_word))

\* lines 29-67: the body of the loop, run once from the locals g
StartWordBody(g, secret_word, all_guesses, starting_guess) ==
  StartWordGuessed(g, StartWordChoice(g, all_guesses, starting_guess),
                   secret_word, starting_guess)

-----------------------------------------------------------------------------
(* The games: both loops play the same secret over the same vocabularies.  *)

\* long answer vocabularies: the first n words over b, c, d, none of which
\* shares a letter with STARTING_GUESS
GameWord(k) ==
  [i \in 1..WordLen |->
     LetterSeq[((k \div (3 ^ (i - 1))) % 3) + 2]]
GameList(n) == [k \in 1..n |-> GameWord(k)]
GameLists ==
  {GameList(n) : n \in (NARROW_LIMIT + 1)..(NARROW_LIMIT + MaxOver)}

AnswerLists == SubLists(Vocab) \cup GameLists
GuessLists == SubLists(PoolWords)
Secrets == BankWords \cup {GameWord(1), GameWord(NARROW_LIMIT)}
OpeningWords == {STARTING_GUESS, WordBank[2]}

InitGames ==
  /\ fn = "play_game"
  /\ \E s \in Secrets, a \in AnswerLists, g \in GuessLists,
        o \in OpeningWords :
       /\ args = [secret_word |-> s, all_answers |-> a, all_guesses |-> g,
                  starting_guess |-> o]
       /\ simulation = SimStart(a)
       /\ start_word = StartWordStart(a)
  /\ ret = None
  /\ pc = "call"

\* simulation.py:26-74: the loop test holds and the body runs
SimTurn ==
  /\ fn = "play_game"
  /\ simulation.pc = "while"
  /\ simulation.guess_number <= MAX_ATTEMPTS
  /\ simulation' = SimBody(simulation, args.secret_word, args.all_guesses)
  /\ UNCHANGED <<fn, args, ret, pc, start_word>>

\* simulation.py:26, 77: the loop test fails
SimGiveUp ==
  /\ fn = "play_game"
  /\ simulation.pc = "while"
  /\ simulation.guess_number > MAX_ATTEMPTS
  /\ simulation' =
       [simulation EXCEPT
          !.pc = "return77",
          !.ret = Outcome(-1, args.secret_word, simulation.game_history)]
  /\ UNCHANGED <<fn, args, ret, pc, start_word>>

\* start_word_simulation.py:26-67
StartWordTurn ==
  /\ fn = "play_game"
  /\ start_word.pc = "while"
  /\ start_word.guess_number <= StartWord_MAX_ATTEMPTS
  /\ start_word' = StartWordBody(start_word, args.secret_word,
                                 args.all_guesses, args.starting_guess)
  /\ UNCHANGED <<fn, args, ret, pc, simulation>>

\* start_word_simulation.py:26, 70
StartWordGiveUp ==
  /\ fn = "play_game"
  /\ start_word.pc = "while"
  /\ start_word.guess_number > StartWord_MAX_ATTEMPTS
  /\ start_word' =
       [start_word EXCEPT
          !.pc = "return70",
          !.ret = StartWordOutcome(-1, args.secret_word,
                                   start_word.game_history,
                                   args.starting_guess)]
  /\ UNCHANGED <<fn, args, ret, pc, simulation>>

NextGames == SimTurn \/ SimGiveUp \/ StartWordTurn \/ StartWordGiveUp

GameSpec == InitGames /\ [][NextGames]_vars

-----------------------------------------------------------------------------
(* Properties of get_feedback.                                             *)

Count(word, x) == Cardinality({i \in 1..WordLen : word[i] = x})

\* C1: get_feedback(g, a) is a pattern of exactly 5 symbols, each one of G, Y
\* or B, and it is GGGGG if and only if g = a.
C1_PatternShape ==
  Returned("get_feedback") =>
    /\ Len(ret) = 5
    /\ \A i \in 1..5 : ret[i] \in {"G", "Y", "B"}
    /\ (ret = <<"G", "G", "G", "G", "G">>) <=> (args.guess = args.answer)

\* a guess equal to the answer has come back all green, and so has no other
C1_Witness ==
  /\ Returned("get_feedback")
  /\ args.guess = args.answer
  /\ ret = AllGreen
  /\ Count(args.guess, args.guess[1]) >= 2

\* The two-pass rule of the specification (4.1): pass 1 marks the exact
\* matches and takes them off the tally; pass 2 classifies only the slots
\* that pass 1 did not mark.
RECURSIVE RulePass2(_, _, _, _)
RulePass2(guess, i, feedback, tally) ==
  IF i > WordLen
    THEN feedback
    ELSE IF feedback[i] = "G"
      THEN RulePass2(guess, i + 1, feedback, tally)
      ELSE IF tally[guess[i]] > 0
        THEN RulePass2(guess, i + 1, [feedback EXCEPT ![i] = "Y"],
                       [tally EXCEPT ![guess[i]] = @ - 1])
        ELSE RulePass2(guess, i + 1, [feedback EXCEPT ![i] = "B"], tally)

TwoPassRule(guess, answer) ==
  LET exact == {i \in 1..WordLen : guess[i] = answer[i]}
      marked == [i \in 1..WordLen |-> IF i \in exact THEN "G" ELSE "B"]
      tally == [c \in Alphabet |->
                  Count(answer, c) - Cardinality({i \in exact : guess[i] = c})]
  IN  RulePass2(guess, 1, marked, tally)

\* C2: get_feedback(g, a) is the result of the two-pass rule: every slot
\* with g[i] = a[i] is G in the final pattern and pass 2 classifies only the
\* other slots; get_feedback("abcde", "adcbe") is G at indices 0 and 4.
C2_TwoPassRule ==
  Returned("get_feedback") =>
    /\ ret = TwoPassRule(args.guess, args.answer)
    /\ \A i \in 1..WordLen : args.guess[i] = args.answer[i] => ret[i] = "G"
    /\ (args.guess = WordBank[2] /\ args.answer = WordBank[3]) =>
         (ret[1] = "G" /\ ret[5] = "G")

\* C3: when the guess holds a letter x exactly twice and the answer holds it
\* exactly once, at most one of the two x slots is Y; and if one of them is
\* an exact match it is G and the other is B.
C3_RepeatedLetter ==
  Returned("get_feedback") =>
    \A x \in Alphabet :
      LET slots == {i \in 1..WordLen : args.guess[i] = x}
      IN  (Cardinality(slots) = 2 /\ Count(args.answer, x) = 1) =>
            /\ Cardinality({i \in slots : ret[i] = "Y"}) <= 1
            /\ \A i \in slots :
                 args.answer[i] = x =>
                   (ret[i] = "G" /\ \A j \in slots \ {i} : ret[j] = "B")

\* a guess with x twice, one of them in the answer's only x slot
C3_Witness ==
  /\ Returned("get_feedback")
  /\ \E x \in Alphabet :
       LET slots == {i \in 1..WordLen : args.guess[i] = x}
       IN  /\ Cardinality(slots) = 2
           /\ Count(args.answer, x) = 1
           /\ \E i \in slots : args.answer[i] = x /\ ret[i] = "G"

-----------------------------------------------------------------------------
(* Properties of filter_word_list.                                         *)

\* s is t with some members left out, the rest in t's order
RECURSIVE IsSubsequence(_, _)
IsSubsequence(s, t) ==
  IF s = <<>> THEN TRUE
  ELSE IF t = <<>> THEN FALSE
  ELSE IF Head(s) = Head(t) THEN IsSubsequence(Tail(s), Tail(t))
  ELSE IsSubsequence(s, Tail(t))

\* C4: every word w of filter_word_list(P, g, get_feedback(g, s)) has
\* get_feedback(g, w) = get_feedback(g, s), and s is in the result whenever
\* s is in P.
C4_FilterSound ==
  Returned("filter_word_list") =>
    \A s \in BankWords :
      args.feedback = get_feedback(args.guess, s) =>
        /\ \A k \in 1..Len(ret) :
             get_feedback(args.guess, ret[k]) = get_feedback(args.guess, s)
        /\ s \in Range(args.words) => s \in Range(ret)

\* the pattern of a secret in P has filtered P down to some, not all, of it
C4_Witness ==
  /\ Returned("filter_word_list")
  /\ \E s \in Range(args.words) :
       /\ args.feedback = get_feedback(args.guess, s)
       /\ s # args.guess
       /\ Len(ret) >= 2
       /\ Len(ret) < Len(args.words)

\* C5: for any pattern, filter_word_list(P, g, p) is a new list that is a
\* subsequence of P in P's order, so no longer than P, and P is unchanged.
C5_FilterFrame ==
  /\ [](Returned("filter_word_list") =>
          /\ IsSubsequence(ret, args.words)
          /\ Len(ret) <= Len(args.words))
  /\ [][fn = "filter_word_list" => args'.words = args.words]_vars

\* a pattern that no word of P produces has emptied the list, and another
\* call has kept two or more words out of more
C5_Witness ==
  /\ Returned("filter_word_list")
  /\ Len(ret) >= 2
  /\ Len(ret) < Len(args.words)
  /\ ret[1] # args.words[1]

-----------------------------------------------------------------------------
(* Properties of calculate_entropy.                                        *)

\* the patterns that guess draws from the members of possible_words
PatternsOf(possible_words, guess) ==
  {get_feedback(guess, possible_words[k]) : k \in 1..Len(possible_words)}

\* the number of members of possible_words that draw pattern p
BucketSize(possible_words, guess, p) ==
  Cardinality({k \in 1..Len(possible_words) :
                 get_feedback(guess, possible_words[k]) = p})

EqualBuckets(possible_words, guess) ==
  \A p, q \in PatternsOf(possible_words, guess) :
    BucketSize(possible_words, guess, p) = BucketSize(possible_words, guess, q)

\* C6: calculate_entropy(P, g) is >= 0, and it is 0.0 whenever P has 0 or 1
\* members, whatever g is.
C6_EntropyBounds ==
  Returned("calculate_entropy") =>
    /\ ~Greater(Zero, ret)
    /\ Len(args.possible_words) <= 1 => SameFloat(ret, Zero)

\* a list of one word, scored with a guess that is another word
C6_Witness ==
  /\ Returned("calculate_entropy")
  /\ Len(args.possible_words) = 1
  /\ args.guess # args.possible_words[1]
  /\ SameFloat(ret, Zero)

-----------------------------------------------------------------------------
(* Properties of find_best_guess.                                          *)

\* the pool that a call searches, by the rule of 4.4
Searched(possible_words, full_guess_pool) ==
  IF Len(possible_words) <= 50 THEN possible_words ELSE full_guess_pool

\* the scores of the members of pool, in pool order
ScoresOf(possible_words, pool) ==
  Computed([i \in 1..Len(pool) |-> calculate_entropy(possible_words, pool[i])])

\* i is the first index of scores that holds their maximum
FirstMaximum(scores, i) ==
  /\ \A j \in 1..Len(scores) : ~Greater(scores[j], scores[i])
  /\ \A j \in 1..(i - 1) : Greater(scores[i], scores[j])

\* C8: find_best_guess returns the first candidate, in the order of the pool
\* it searches, whose entropy is the maximum over that pool, with that
\* score; a later candidate of equal score never replaces it, and the pair
\* returned is the same whatever the quiet flag.
C8_FirstMaximum ==
  Returned("find_best_guess") =>
    LET pool == Searched(args.possible_words, args.full_guess_pool)
        scores == ScoresOf(args.possible_words, pool)
        other == find_best_guess(args.possible_words, args.full_guess_pool,
                                 ~args.quiet)
    IN  /\ \A i \in 1..Len(pool) :
             FirstMaximum(scores, i) =>
               (ret.guess = pool[i] /\ SameFloat(ret.score, scores[i]))
        /\ other.guess = ret.guess
        /\ SameFloat(other.score, ret.score)

\* the first candidate scores less than the one returned, and a candidate
\* after the one returned scores the same
C8_Witness ==
  /\ Returned("find_best_guess")
  /\ LET pool == Searched(args.possible_words, args.full_guess_pool)
         scores == ScoresOf(args.possible_words, pool)
     IN  \E i, j \in 1..Len(pool) :
           /\ 1 < i /\ i < j
           /\ ret.guess = pool[i]
           /\ Greater(scores[i], scores[1])
           /\ SameFloat(scores[i], scores[j])

\* C9: with 1 to 50 possible words the guess returned is one of them, even
\* if it is not in the guess pool (with exactly 1 it is that word, score
\* 0.0); with more than 50 the guess returned is in the guess pool.
C9_PoolNarrowing ==
  Returned("find_best_guess") =>
    /\ (Len(args.possible_words) >= 1 /\ Len(args.possible_words) <= 50) =>
         ret.guess \in Range(args.possible_words)
    /\ Len(args.possible_words) = 1 =>
         (ret.guess = args.possible_words[1] /\ SameFloat(ret.score, Zero))
    /\ Len(args.possible_words) > 50 =>
         ret.guess \in Range(args.full_guess_pool)

\* C10: called with an empty guess pool, find_best_guess signals a fault,
\* and never returns the pair (None, -1.0).
C10_EmptyPoolFault ==
  (Returned("find_best_guess") /\ args.full_guess_pool = <<>>) =>
    /\ ret.raised
    /\ ~(ret.guess = None /\ SameFloat(ret.score, MinusOne))

-----------------------------------------------------------------------------
(* Properties of play_game.                                                *)

\* simulation.play_game has returned
SimReturned == simulation.pc \in {"return39", "return69", "return77"}

\* C11: play_game ends after at most MAX_ATTEMPTS guesses with a result
\* that is a turn number 1..MAX_ATTEMPTS or -1; the result is t exactly when
\* the guess of turn t is the secret (feedback "GGGGG") and no earlier guess
\* was, and no guess follows a winning guess.
C11_GameEnds ==
  fn = "play_game" =>
    /\ simulation.pc \in {"while", "return39", "return69", "return77"}
    /\ Len(simulation.game_history) <= MAX_ATTEMPTS
    /\ SimReturned =>
         LET history == simulation.ret.history
             Wins(t) == /\ t <= Len(history)
                        /\ history[t].guess = args.secret_word
                        /\ history[t].feedback = AllGreen
         IN  /\ simulation.ret.result \in (1..MAX_ATTEMPTS) \cup {-1}
             /\ \A t \in 1..MAX_ATTEMPTS :
                  simulation.ret.result = t <=>
                    (Wins(t) /\ \A u \in 1..(t - 1) : ~Wins(u))
             /\ \A t \in 1..Len(history) : Wins(t) => t = Len(history)

\* what an outcome carries besides the secret and the log of the game
ReasonOf(outcome) ==
  [result |-> outcome.result,
   reason |-> IF "reason" \in DOMAIN outcome THEN outcome.reason ELSE None]

\* C12: the outcome returned when the possibility list is empty is a Lost
\* outcome with a reason code that tells it from the Lost outcome returned
\* when the attempts run out.
C12_ExhaustionReason ==
  (fn = "play_game" /\ simulation.pc = "return39") =>
    /\ simulation.ret.result = -1
    /\ ReasonOf(simulation.ret) #
         ReasonOf(Outcome(-1, args.secret_word, simulation.game_history))

\* the turn that simulation.play_game takes in this step, if any
SimStep(t) ==
  /\ fn = "play_game"
  /\ simulation.pc = "while"
  /\ simulation.guess_number = t
  /\ simulation' # simulation

\* the turn that start_word_simulation.play_game takes in this step, if any
StartWordStep(t) ==
  /\ fn = "play_game"
  /\ start_word.pc = "while"
  /\ start_word.guess_number = t
  /\ start_word' # start_word

\* C13: on turn 1 play_game guesses the fixed opening word, with the score
\* -1.0 in the record of the turn, and does not call find_best_guess,
\* whatever the vocabularies are (in start_word_simulation the fixed
\* opening word is the parameter starting_guess).
C13_OpeningTurn ==
  [][ /\ SimStep(1) =>
           /\ Len(simulation'.game_history) = 1
           /\ simulation'.game_history[1].guess_num = 1
           /\ simulation'.game_history[1].guess = STARTING_GUESS
           /\ SameFloat(simulation'.game_history[1].entropy_score, MinusOne)
           /\ simulation'.selector_calls = 0
      /\ StartWordStep(1) =>
           /\ Len(start_word'.game_history) = 1
           /\ start_word'.game_history[1].guess_num = 1
           /\ start_word'.game_history[1].guess = args.starting_guess
           /\ SameFloat(start_word'.game_history[1].entropy_score, MinusOne)
           /\ start_word'.selector_calls = 0 ]_vars

\* turn 1 has been played over an empty answer vocabulary, with an opening
\* word that is in neither vocabulary
C13_Witness ==
  /\ fn = "play_game"
  /\ args.all_answers = <<>>
  /\ STARTING_GUESS \notin Range(args.all_guesses)
  /\ simulation.pc = "while"
  /\ simulation.guess_number = 2
  /\ simulation.game_history[1].guess = STARTING_GUESS
  /\ simulation.selector_calls = 0

\* the last record of the log
LastRecord(game_history) == game_history[Len(game_history)]

\* C14: on every turn 2..MAX_ATTEMPTS: with exactly 1 possible word that
\* word is guessed with score 0.0 and find_best_guess is not called; with 0
\* possible words the game ends with result -1 at once, no guess made;
\* otherwise the guess and the score are what find_best_guess returns for
\* the possibility list and the whole guess vocabulary.
C14_LaterTurns ==
  [][ \A t \in 2..MAX_ATTEMPTS :
        SimStep(t) =>
          LET remaining == simulation.remaining_possible_words
          IN  IF Len(remaining) = 1
                THEN /\ simulation'.selector_calls = simulation.selector_calls
                     /\ Len(simulation'.game_history) = t
                     /\ LastRecord(simulation'.game_history).guess = remaining[1]
                     /\ SameFloat(
                          LastRecord(simulation'.game_history).entropy_score,
                          Zero)
              ELSE IF Len(remaining) = 0
                THEN /\ simulation'.pc = "return39"
                     /\ simulation'.ret.result = -1
                     /\ simulation'.game_history = simulation.game_history
                     /\ simulation'.selector_calls = simulation.selector_calls
              ELSE LET found == find_best_guess(remaining, args.all_guesses, TRUE)
                   IN  /\ simulation'.selector_calls =
                            simulation.selector_calls + 1
                       /\ simulation'.best_guess = found.guess
                       /\ SameFloat(simulation'.score, found.score)
                       /\ simulation'.pc # "raise" =>
                            /\ Len(simulation'.game_history) = t
                            /\ LastRecord(simulation'.game_history).guess =
                                 found.guess
                            /\ SameFloat(
                                 LastRecord(simulation'.game_history).entropy_score,
                                 found.score) ]_vars

\* a game that called find_best_guess on one turn and guessed the single
\* word left on a later one
C14_Witness ==
  /\ fn = "play_game"
  /\ simulation.pc = "return69"
  /\ simulation.selector_calls >= 1
  /\ LastRecord(simulation.game_history).possibilities_before_guess = 1
  /\ SameFloat(LastRecord(simulation.game_history).entropy_score, Zero)

\* the turn during which the game of simulation.play_game has ended: the
\* turn of the return statement, the last turn when the attempts ran out
EndTurn ==
  IF simulation.pc = "return77" THEN MAX_ATTEMPTS ELSE simulation.guess_number

\* the records are numbered 1, 2, ... in order
Numbered(game_history) ==
  \A i \in 1..Len(game_history) : game_history[i].guess_num = i

\* the log only grows at its end
AppendOnly ==
  [][ fn = "play_game" =>
        /\ Len(simulation'.game_history) >= Len(simulation.game_history)
        /\ SubSeq(simulation'.game_history, 1, Len(simulation.game_history))
             = simulation.game_history ]_vars

\* C15 as stated: whenever the game ends during turn t, by a win, by running
\* out of attempts or by an empty possibility list, the log holds exactly t
\* records, numbered 1..t in order, and earlier records are never changed.
C15_RecordPerTurn ==
  /\ [](fn = "play_game" /\ SimReturned =>
          /\ Len(simulation.ret.history) = EndTurn
          /\ Numbered(simulation.ret.history))
  /\ AppendOnly

\* C15 amended: a game that ends during turn t by a win, or after turn
\* t = MAX_ATTEMPTS without one, has exactly t records; a game that ends
\* during turn t by an empty possibility list has t - 1 records, none for
\* turn t; the records are numbered in order and never changed.
C15_RecordPerGuess ==
  /\ [](fn = "play_game" /\ SimReturned =>
          /\ simulation.pc \in {"return69", "return77"} =>
               Len(simulation.ret.history) = EndTurn
          /\ simulation.pc = "return39" =>
               Len(simulation.ret.history) = EndTurn - 1
          /\ Numbered(simulation.ret.history))
  /\ AppendOnly

\* the game has ended through the empty possibility list on turn 3, with
\* the records of turns 1 and 2
C15_Witness ==
  /\ fn = "play_game"
  /\ simulation.pc = "return39"
  /\ simulation.guess_number = 3
  /\ Len(simulation.ret.history) = 2

\* C16: if the secret is in the answer vocabulary, then at the start of
\* every turn the possibility list is within the answer vocabulary and
\* holds the secret, its size never grows from one turn to the next, and the
\* game never ends through the empty-possibility branch.
C16_SecretKept ==
  /\ [](( fn = "play_game"
          /\ args.secret_word \in Range(args.all_answers)) =>
          /\ Range(simulation.remaining_possible_words)
               \subseteq Range(args.all_answers)
          /\ args.secret_word \in Range(simulation.remaining_possible_words)
          /\ simulation.pc # "return39")
  /\ [][( fn = "play_game"
          /\ args.secret_word \in Range(args.all_answers)) =>
          Len(simulation'.remaining_possible_words)
            <= Len(simulation.remaining_possible_words) ]_vars

\* turn 3 starts with fewer possible words than the answer vocabulary, the
\* secret among them
C16_Witness ==
  /\ fn = "play_game"
  /\ simulation.pc = "while"
  /\ simulation.guess_number = 3
  /\ args.secret_word \in Range(simulation.remaining_possible_words)
  /\ Len(simulation.remaining_possible_words) >= 2
  /\ Len(simulation.remaining_possible_words) < Len(args.all_answers)

\* each record starts from the size the record before it ended with, the
\* first from the size of the answer vocabulary
Chained(game_history, all_answers) ==
  \A i \in 1..Len(game_history) :
    game_history[i].possibilities_before_guess =
      IF i = 1 THEN Len(all_answers)
      ELSE game_history[i - 1].possibilities_after_filter

\* C17: after a turn that does not win, the word just guessed is not in the
\* filtered possibility list; so a turn whose guess came from the
\* possibility list (as on turns >= 2 with 1..50 possible words) makes the
\* list strictly shorter; and each record's possibilities_before_guess is
\* the possibilities_after_filter of the record before it, the first being
\* the size of the answer vocabulary.
C17_GuessRemoved ==
  /\ [](fn = "play_game" =>
          Chained(simulation.game_history, args.all_answers))
  /\ [][ \A t \in 1..MAX_ATTEMPTS :
           (SimStep(t) /\ simulation'.pc = "while") =>
             LET before == simulation.remaining_possible_words
                 after == simulation'.remaining_possible_words
                 guess == LastRecord(simulation'.game_history).guess
             IN  /\ guess \notin Range(after)
                 /\ guess \in Range(before) => Len(after) < Len(before)
                 /\ (t >= 2 /\ Len(before) >= 1 /\ Len(before) <= 50) =>
                      guess \in Range(before) ]_vars

\* turn 2 took its guess from a possibility list of several words, did not
\* win, and left fewer words
C17_Witness ==
  /\ fn = "play_game"
  /\ simulation.pc = "while"
  /\ simulation.guess_number = 3
  /\ simulation.selector_calls = 1
  /\ simulation.game_history[2].possibilities_before_guess >= 3
  /\ simulation.game_history[2].possibilities_after_filter
       < simulation.game_history[2].possibilities_before_guess
  /\ simulation.game_history[2].possibilities_after_filter >= 1

\* a record of start_word_simulation without its starting_word field
WithoutStartingWord(record) ==
  [guess_num |-> record.guess_num,
   guess |-> record.guess,
   feedback |-> record.feedback,
   entropy_score |-> record.entropy_score,
   possibilities_before_guess |-> record.possibilities_before_guess,
   possibilities_after_filter |-> record.possibilities_after_filter]

\* the return statement of start_word_simulation.py that answers to one of
\* simulation.py, and the exception to the exception
SameExit(sim_pc, start_word_pc) ==
  \/ sim_pc = "return39" /\ start_word_pc = "return36"
  \/ sim_pc = "return69" /\ start_word_pc = "return62"
  \/ sim_pc = "return77" /\ start_word_pc = "return70"
  \/ sim_pc = "raise" /\ start_word_pc = "raise"

\* C18: called with starting_guess = STARTING_GUESS on the same secret and
\* vocabularies, start_word_simulation.play_game gives the same result and
\* the same records, turn by turn, as simulation.play_game, but for the
\* extra starting_word field.
C18_SameGame ==
  (fn = "play_game" /\ args.starting_guess = STARTING_GUESS) =>
    /\ \A i \in 1..Len(simulation.game_history) :
         i <= Len(start_word.game_history) =>
           /\ WithoutStartingWord(start_word.game_history[i])
                = simulation.game_history[i]
           /\ start_word.game_history[i].starting_word = STARTING_GUESS
    /\ (simulation.pc # "while" /\ start_word.pc # "while") =>
         /\ SameExit(simulation.pc, start_word.pc)
         /\ Len(start_word.game_history) = Len(simulation.game_history)
         /\ simulation.pc # "raise" =>
              /\ start_word.ret.result = simulation.ret.result
              /\ start_word.ret.secret_word = simulation.ret.secret_word
              /\ Len(start_word.ret.history) = Len(simulation.ret.history)
              /\ \A i \in 1..Len(simulation.ret.history) :
                   WithoutStartingWord(start_word.ret.history[i])
                     = simulation.ret.history[i]
              /\ start_word.ret.starting_word = STARTING_GUESS

\* both loops have won the same game on turn 3 or later, after a call of
\* find_best_guess
C18_Witness ==
  /\ fn = "play_game"
  /\ args.starting_guess = STARTING_GUESS
  /\ simulation.pc = "return69"
  /\ start_word.pc = "return62"
  /\ simulation.ret.result >= 3
  /\ start_word.ret.result = simulation.ret.result
  /\ simulation.selector_calls >= 1

====
